---- MODULE Spec2Model ----
(***************************************************************************)
(* The sharded-manifest lookup of src/bot.py: a pinned manifest document   *)
(* names, per 4-digit phone prefix, the gzip file that holds the records   *)
(* of that prefix.  load_manifest and load_shard cache what they fetch for *)
(* 600 seconds; search_cmd normalises the query, resolves the shard and    *)
(* replies.  Handlers are coroutines: a handler runs without interruption  *)
(* from one await of a network request to the next, and other handlers and *)
(* the outside world (the clock, the channel's pinned message) may take    *)
(* steps while it waits.                                                   *)
(***************************************************************************)
EXTENDS Integers, Sequences, FiniteSets, TLC

----------------------------------------------------------------------------
(* Program constants                                                       *)

SHARD_PREFIX == 4
MANIFEST_CACHE_TTL == 600
SHARD_CACHE_TTL == 600
MinDigits == 7
ALLOWED_USER_IDS == {}

(* Bounds of the model                                                     *)

\* the clock advances by Tick seconds at a time, up to MaxTime
Tick == 300
MaxTime == 600
\* the handlers that may be in flight at once
Procs == {1, 2}
Users == {"u1"}
\* the senders and the settings of ALLOWED_USER_IDS of a restricted deployment
Senders == {"u1", "u2"}
AllowedSets == {ALLOWED_USER_IDS, {"u1"}}

----------------------------------------------------------------------------
(* Values.  A JSON object is a function from its keys; a string of digits  *)
(* is a sequence of one-character strings; an optional value (None or a    *)
(* value) is a sequence of length 0 or 1.                                  *)

None == <<>>
Some(v) == <<v>>
EmptyDict == [k \in {} |-> k]

\* Python truthiness of an optional JSON object: None and {} are false
Truthy(opt) == opt # None /\ DOMAIN opt[1] # {}

Digit == {"0", "1", "2", "3", "4", "5", "6", "7", "8", "9"}

\* a bug digits_only could have: only the blanks are removed
digits_only_BlanksOnly(s) == SelectSeq(s, LAMBDA c : c # " ")

\* re.sub(r"\D", "", s)
digits_only(s) == SelectSeq(s, LAMBDA c : c \in Digit)

\* query[:SHARD_PREFIX]
ShardOf(query) ==
    SubSeq(query, 1, IF Len(query) < SHARD_PREFIX THEN Len(query) ELSE SHARD_PREFIX)

\* a bug ValidQuery could have: the bound is off by one
ValidQuery_OffByOne(query) == Len(query) >= MinDigits - 1

\* line 73, negated: the query is served
ValidQuery(query) == Len(query) >= MinDigits

(* The keys, shards and raw queries the model draws from                   *)

K1 == <<"9", "7", "1", "1", "1", "0", "2", "0", "2", "8">>
K2 == <<"9", "7", "1", "2", "5", "5", "5", "0", "0", "0">>
S1 == <<"9", "7", "1", "1">>
S2 == <<"9", "7", "1", "2">>
Shards == {S1, S2}

\* " ".join(context.args), one character per element; <<>> is "no arguments"
ArgsSet ==
    { <<>>,
      <<"1", "2", "-", "3">>,
      <<"9", "7", "1", "-", "1", "1", " ", "0">>,
      <<"+", "9", "7", "-", "1", "1", "1", "0", "-", "2", "0", "2", "8">>,
      <<"9", "7", "1", "1", "0", "0", "0">>,
      <<"9", "7", "1", "2", " ", "5", "5", "5", "0", "0", "0">> }

(* The files of the channel, by file_id.  A Telegram file_id names fixed   *)
(* bytes; gz says whether the bytes are a gzip stream, json whether the    *)
(* text (after decompression, for a shard file) is JSON, value what the    *)
(* JSON is.                                                                *)

Alice == [name |-> "Alice"]
Bob == [name |-> "Bob"]

Files ==
    [ mBad   |-> [gz |-> FALSE, json |-> FALSE, value |-> EmptyDict],
      mEmpty |-> [gz |-> FALSE, json |-> TRUE,  value |-> EmptyDict],
      mA     |-> [gz |-> FALSE, json |-> TRUE,
                  value |-> [shards |-> (S1 :> [file_id |-> "fA"])]],
      mB     |-> [gz |-> FALSE, json |-> TRUE,
                  value |-> [shards |-> (S1 :> [file_id |-> "fB"])
                                        @@ (S2 :> [file_id |-> "fC"])]],
      mC     |-> [gz |-> FALSE, json |-> TRUE,
                  value |-> [shards |-> (S1 :> [file_id |-> "fGz"])
                                        @@ (S2 :> [file_id |-> "fJs"])]],
      fA     |-> [gz |-> TRUE,  json |-> TRUE,  value |-> (K1 :> Alice)],
      fB     |-> [gz |-> TRUE,  json |-> TRUE,  value |-> (K1 :> Bob)],
      fC     |-> [gz |-> TRUE,  json |-> TRUE,  value |-> (K2 :> EmptyDict)],
      fGz    |-> [gz |-> FALSE, json |-> FALSE, value |-> EmptyDict],
      fJs    |-> [gz |-> TRUE,  json |-> FALSE, value |-> EmptyDict] ]

\* what the channel's pinned message may be: nothing, or one of these documents
ManifestDocs == {"mBad", "mEmpty", "mA", "mB", "mC"}
Pinned == {None} \cup {Some(d) : d \in ManifestDocs}

\* the errors of a network request (telegram.error): BadRequest is the one
\* search_cmd catches; NetworkError stands for the others (TimedOut, ...)
NetErrors == {"BadRequest", "NetworkError"}

----------------------------------------------------------------------------
(* The pure parts of load_manifest, load_shard and search_cmd              *)

\* a bug ManifestFresh could have: an entry aged exactly the TTL is used
ManifestFresh_Inclusive(mc, t) == Truthy(mc.data) /\ t - mc.ts <= MANIFEST_CACHE_TTL

\* line 23
ManifestFresh(mc, t) == Truthy(mc.data) /\ t - mc.ts < MANIFEST_CACHE_TTL

\* a bug ShardFresh could have: the age of the entry is not looked at
ShardFresh_NoExpiry(sc, shard, t) == shard \in DOMAIN sc

\* lines 44-45
ShardFresh(sc, shard, t) ==
    shard \in DOMAIN sc /\ t - sc[shard].ts < SHARD_CACHE_TTL

\* a bug InstallManifest could have: the data is replaced and the timestamp
\* of the old entry is kept
InstallManifest_KeepTs(mc, manifest, t) == [data |-> Some(manifest), ts |-> mc.ts]

\* lines 38-39
InstallManifest(mc, manifest, t) == [data |-> Some(manifest), ts |-> t]

\* a bug InstallShard could have: the entry is stored under another key than
\* the one it is looked up by
InstallShard_WrongKey(sc, shard, data, t) ==
    [s \in DOMAIN sc \cup {SubSeq(shard, 1, Len(shard) - 1)} |->
        IF s = SubSeq(shard, 1, Len(shard) - 1)
        THEN [data |-> data, ts |-> t] ELSE sc[s]]

\* a bug InstallShard could have: the cache is replaced by the new entry alone
InstallShard_DropOthers(sc, shard, data, t) ==
    [s \in {shard} |-> [data |-> data, ts |-> t]]

\* line 59
InstallShard(sc, shard, data, t) ==
    [s \in DOMAIN sc \cup {shard} |->
        IF s = shard THEN [data |-> data, ts |-> t] ELSE sc[s]]

\* a bug AbsentShard could have: the empty result is cached
AbsentShard_NegativeEntry(sc, shard, t) ==
    [ret |-> EmptyDict,
     cache |-> [s \in DOMAIN sc \cup {shard} |->
                  IF s = shard THEN [data |-> EmptyDict, ts |-> t] ELSE sc[s]]]

\* lines 50-51: `return {}`, the cache is not written
AbsentShard(sc, shard, t) == [ret |-> EmptyDict, cache |-> sc]

\* line 49 can raise: manifest["shards"]
HasShards(manifest) == "shards" \in DOMAIN manifest

\* lines 49-50: the shard is named by the manifest
Named(manifest, shard) == shard \in DOMAIN manifest.shards

\* line 80: the exceptions search_cmd catches
Caught(e) == e = "BadRequest"

\* the texts search_cmd sends
NoReply == [text |-> "none", rec |-> EmptyDict]
Usage == [text |-> "Usage: /search <phone>", rec |-> EmptyDict]
Invalid == [text |-> "Please provide a valid phone number (7+ digits).", rec |-> EmptyDict]
Unavailable == [text |-> "Shard not available for prefix", rec |-> EmptyDict]
NotFound == [text |-> "Not found.", rec |-> EmptyDict]
Record(rec) == [text |-> "json.dumps(rec)", rec |-> rec]

\* lines 84-92
ReplyFor(shard_map, query) ==
    IF query \in DOMAIN shard_map /\ DOMAIN shard_map[query] # {}
    THEN Record(shard_map[query])
    ELSE NotFound

\* a bug ParseManifest could have: the entry is stamped with the epoch
\* instead of the time read at the start of the call
ParseManifest_EpochTs(mc, fid, t) ==
    IF ~Files[fid].json
    THEN [exc |-> "JSONDecodeError", cache |-> mc, ret |-> EmptyDict]
    ELSE [exc |-> "none", cache |-> InstallManifest(mc, Files[fid].value, 0),
          ret |-> Files[fid].value]

\* lines 36-40 of load_manifest, with the bytes of file fid downloaded: the
\* exception raised ("none": it returns), the cache left and the value returned
ParseManifest(mc, fid, t) ==
    IF ~Files[fid].json
    THEN [exc |-> "JSONDecodeError", cache |-> mc, ret |-> EmptyDict]
    ELSE [exc |-> "none", cache |-> InstallManifest(mc, Files[fid].value, t),
          ret |-> Files[fid].value]

\* a bug ParseShard could have: the entry is written before the text is parsed
ParseShard_InstallFirst(sc, shard, fid, t) ==
    IF ~Files[fid].gz
    THEN [exc |-> "BadGzipFile", cache |-> sc, ret |-> EmptyDict]
    ELSE IF ~Files[fid].json
    THEN [exc |-> "JSONDecodeError",
          cache |-> [s \in DOMAIN sc \cup {shard} |->
                       IF s = shard THEN [data |-> EmptyDict, ts |-> t] ELSE sc[s]],
          ret |-> EmptyDict]
    ELSE [exc |-> "none",
          cache |-> [s \in DOMAIN sc \cup {shard} |->
                       IF s = shard THEN [data |-> Files[fid].value, ts |-> t] ELSE sc[s]],
          ret |-> Files[fid].value]

\* lines 57-60 of load_shard, with the bytes of file fid downloaded
ParseShard(sc, shard, fid, t) ==
    IF ~Files[fid].gz
    THEN [exc |-> "BadGzipFile", cache |-> sc, ret |-> EmptyDict]
    ELSE IF ~Files[fid].json
    THEN [exc |-> "JSONDecodeError", cache |-> sc, ret |-> EmptyDict]
    ELSE [exc |-> "none", cache |-> InstallShard(sc, shard, Files[fid].value, t),
          ret |-> Files[fid].value]

----------------------------------------------------------------------------
(* The channel-ingest variant, src/server.py: every document posted to the *)
(* channel whose name ends in .json.gz is downloaded once and its records  *)
(* are indexed by mobile number and by e-mail address.                     *)

\* a JSON number and a JSON string (a sequence of one-character strings)
JInt(n) == [t |-> "int", n |-> n, s |-> <<>>]
JStr(s) == [t |-> "str", n |-> 0, s |-> s]

\* Python truthiness of a JSON number or string
JTruthy(v) == IF v.t = "int" THEN v.n # 0 ELSE v.s # <<>>

\* an element of the list of a file: a JSON object with fields f, or a JSON
\* value that is no object (a number)
Obj(f) == [obj |-> TRUE, f |-> f]
NotObj == [obj |-> FALSE, f |-> EmptyDict]

DigitChar(d) == <<"0", "1", "2", "3", "4", "5", "6", "7", "8", "9">>[d + 1]

\* str(n) of a number that is not negative
RECURSIVE str_int(_)
str_int(n) ==
    IF n < 10 THEN <<DigitChar(n)>> ELSE str_int(n \div 10) \o <<DigitChar(n % 10)>>

\* line 41: str(record['Mobile No'])
str(v) == IF v.t = "int" THEN str_int(v.n) ELSE v.s

\* line 43: s.lower(), for the letters the model's addresses are made of
LowerChar(c) == CASE c = "A" -> "a" [] c = "X" -> "x" [] OTHER -> c
lower(s) == [i \in 1..Len(s) |-> LowerChar(s[i])]

\* d[k] = v
Put(d, k, v) == [x \in DOMAIN d \cup {k} |-> IF x = k THEN v ELSE d[x]]

\* lines 39-44: the loop of index_records over records, from the indexes mob
\* and em: the exception that ends it ("none": it runs to the end) and the
\* indexes it leaves
RECURSIVE IndexLoop(_, _, _)
IndexLoop(records, mob, em) ==
    IF records = <<>>
    THEN [exc |-> "none", mobile |-> mob, email |-> em]
    ELSE LET record == Head(records)
             mob2 == IF "Mobile No" \in DOMAIN record.f
                     THEN Put(mob, str(record.f["Mobile No"]), record)
                     ELSE mob
         IN
         IF ~record.obj
         THEN [exc |-> "TypeError", mobile |-> mob, email |-> em]
         ELSE IF "Email Contact" \in DOMAIN record.f
                 /\ JTruthy(record.f["Email Contact"])
         THEN IF record.f["Email Contact"].t # "str"
              THEN [exc |-> "AttributeError", mobile |-> mob2, email |-> em]
              ELSE IndexLoop(Tail(records), mob2,
                             Put(em, lower(record.f["Email Contact"].s), record))
         ELSE IndexLoop(Tail(records), mob2, em)

\* lines 36-46: index_records(records, filename)
index_records(records, filename, mob, em, pf) ==
    LET r == IndexLoop(records, mob, em) IN
    [exc |-> r.exc, mobile |-> r.mobile, email |-> r.email,
     processed |-> IF r.exc = "none" THEN pf \cup {filename} ELSE pf]

(* The records, files and documents the model draws from                   *)

M111 == <<"1", "1", "1">>
M222 == <<"2", "2", "2">>
MailA == <<"A", "@", "X">>

R1 == Obj(("Mobile No" :> JStr(M111)) @@ ("Email Contact" :> JStr(MailA)))
R1b == Obj("Mobile No" :> JInt(111))
R2 == Obj("Email Contact" :> JStr(<<>>))
RBadMail == Obj(("Mobile No" :> JStr(M222)) @@ ("Email Contact" :> JInt(5)))

\* the bytes behind each file_id: gz and json as above, list whether the
\* JSON is a list, records the list
DocFiles ==
    [ gA  |-> [gz |-> TRUE,  json |-> TRUE,  list |-> TRUE,  records |-> <<R1, R2>>],
      gA2 |-> [gz |-> TRUE,  json |-> TRUE,  list |-> TRUE,  records |-> <<R1b>>],
      gB  |-> [gz |-> TRUE,  json |-> TRUE,  list |-> TRUE,  records |-> <<R1, NotObj>>],
      gC  |-> [gz |-> TRUE,  json |-> TRUE,  list |-> TRUE,  records |-> <<RBadMail>>],
      gD  |-> [gz |-> TRUE,  json |-> TRUE,  list |-> FALSE, records |-> <<>>],
      gE  |-> [gz |-> FALSE, json |-> FALSE, list |-> FALSE, records |-> <<>>],
      gF  |-> [gz |-> TRUE,  json |-> TRUE,  list |-> TRUE,  records |-> <<R1>>] ]

\* a file name is its stem and its ending
JsonGz == ".json.gz"

\* message.document of the messages posted: gA and gA2 carry one name
Documents ==
    { [file_name |-> <<"a", JsonGz>>, file_id |-> "gA"],
      [file_name |-> <<"a", JsonGz>>, file_id |-> "gA2"],
      [file_name |-> <<"b", JsonGz>>, file_id |-> "gB"],
      [file_name |-> <<"c", JsonGz>>, file_id |-> "gC"],
      [file_name |-> <<"d", JsonGz>>, file_id |-> "gD"],
      [file_name |-> <<"e", JsonGz>>, file_id |-> "gE"],
      [file_name |-> <<"f", ".txt">>, file_id |-> "gF"] }

FileNames == {d.file_name : d \in Documents}
NoDoc == [file_name |-> <<"-", "-">>, file_id |-> "-"]

\* line 51: doc.file_name.endswith('.json.gz')
EndsWithJsonGz(name) == name[Len(name)] = JsonGz

\* lines 137-140: what document_handler sends for the value returned
Indexed == "Indexed records"
Failed == "Error processing file"
Silent == "none"
DocReply(n) == IF n > 0 THEN Indexed ELSE IF n = -1 THEN Failed ELSE Silent

\* lines 58-65, with the bytes of file fid downloaded: the value returned
\* and the indexes and processed_files left
ProcessBytes(fid, filename, mob, em, pf) ==
    LET file == DocFiles[fid]
        r == index_records(file.records, filename, mob, em, pf)
    IN
    IF ~file.gz \/ ~file.json \/ ~file.list
    THEN [ret |-> -1, mobile |-> mob, email |-> em, processed |-> pf]
    ELSE IF r.exc # "none"
    THEN [ret |-> -1, mobile |-> r.mobile, email |-> r.email, processed |-> r.processed]
    ELSE [ret |-> Len(file.records), mobile |-> r.mobile, email |-> r.email,
          processed |-> r.processed]

----------------------------------------------------------------------------
(* State                                                                   *)

VARIABLES
    clock,           \* time.time()
    pinned,          \* the channel's pinned manifest document: None or Some(file_id)
    manifest_cache,  \* _manifest_cache: [data, ts], data None or Some(manifest)
    shard_cache,     \* _shard_cache: shard |-> [data, ts], for the shards cached
    pc,              \* where each handler is: idle, awaiting a request, or done
    args,            \* the handler's " ".join(context.args)
    now,             \* the handler's `now` (lines 22 and 43, read in one step)
    doc,             \* load_manifest: pm.document.file_id
    info,            \* load_shard: info["file_id"]
    reply,           \* the text the handler sent with reply_text
    exc,             \* the exception the handler's load_shard call raised
    obs,             \* per handler, what its load_manifest and load_shard calls did
    allowed,         \* ALLOWED_USER_IDS as the deployment sets it (line 10)
    sender,          \* update.effective_user.id of the handler's update
    \* the channel-ingest variant, src/server.py
    user_data_by_mobile,  \* str(record['Mobile No']) |-> record
    user_data_by_email,   \* record['Email Contact'].lower() |-> record
    processed_files,      \* the file names index_records has completed
    mpc,             \* where each document_handler is: idle, awaiting, done
    mdoc,            \* the handler's message.document
    ret,             \* what the handler's process_document_message returned
    mreply,          \* the text the handler sent with reply_text
    times            \* per file name, how often index_records completed it

vars == <<clock, pinned, manifest_cache, shard_cache, pc, args, now, doc, info,
          reply, exc, obs, allowed, sender,
          user_data_by_mobile, user_data_by_email, processed_files,
          mpc, mdoc, ret, mreply, times>>

\* the state of src/bot.py and the state of src/server.py
botVars == <<clock, pinned, manifest_cache, shard_cache, pc, args, now, doc, info,
             reply, exc, obs, allowed, sender>>
ingestVars == <<user_data_by_mobile, user_data_by_email, processed_files,
                mpc, mdoc, ret, mreply, times>>

Query(p) == digits_only(args[p])
Shard(p) == ShardOf(Query(p))

\* obs[p] of a handler that has called neither function.  lm, ls: how the call
\* to load_manifest / load_shard went (none: not called; wait: awaiting a
\* request; hit: answered from the cache; absent: the manifest does not name
\* the shard; fetched; raised).  mret, sret: the value returned.  mfetch,
\* sfetch: the fetches of the manifest document / the shard file the call
\* issued.  mage, sage: the age of the cached entry the call found (-1: none).
\* mold, sold: the data of that entry.  mput, sput: the cache entry the call
\* wrote.  with: the handlers in flight when this one was called.
NoObs ==
    [lm |-> "none", ls |-> "none", mret |-> None, sret |-> None,
     mfetch |-> 0, sfetch |-> 0, mage |-> -1, sage |-> -1,
     mold |-> None, sold |-> None, mput |-> None, sput |-> None, with |-> {}]

\* server.py lines 32-34, and no document_handler called yet
IngestInit ==
    /\ user_data_by_mobile = EmptyDict
    /\ user_data_by_email = EmptyDict
    /\ processed_files = {}
    /\ mpc = [h \in Procs |-> "idle"]
    /\ mdoc = [h \in Procs |-> NoDoc]
    /\ ret = [h \in Procs |-> 0]
    /\ mreply = [h \in Procs |-> Silent]
    /\ times = [n \in FileNames |-> 0]

Init ==
    /\ clock = 0
    /\ pinned \in Pinned
    /\ manifest_cache = [data |-> None, ts |-> 0]
    /\ shard_cache = EmptyDict
    /\ pc = [p \in Procs |-> "idle"]
    /\ args = [p \in Procs |-> <<>>]
    /\ now = [p \in Procs |-> 0]
    /\ doc = [p \in Procs |-> "-"]
    /\ info = [p \in Procs |-> "-"]
    /\ reply = [p \in Procs |-> NoReply]
    /\ exc = [p \in Procs |-> "none"]
    /\ obs = [p \in Procs |-> NoObs]
    /\ allowed = ALLOWED_USER_IDS
    /\ sender = [p \in Procs |-> "-"]
    /\ IngestInit

----------------------------------------------------------------------------
(* The ends of a handler                                                   *)

\* the handler returns, having sent r; e is the exception load_shard raised
Done(p, r, e, o) ==
    /\ pc' = [pc EXCEPT ![p] = "done"]
    /\ reply' = [reply EXCEPT ![p] = r]
    /\ exc' = [exc EXCEPT ![p] = e]
    /\ obs' = [obs EXCEPT ![p] = o]

\* lines 78-82: an exception leaves load_shard; search_cmd answers the ones
\* it catches and the others leave the handler with nothing sent
Raise(p, e, o) == Done(p, IF Caught(e) THEN Unavailable ELSE NoReply, e, o)

\* the entry of shard that a step taking the shard cache from sc to sc2 wrote
Written(sc, sc2, shard) ==
    IF shard \in DOMAIN sc2 /\ (shard \notin DOMAIN sc \/ sc[shard] # sc2[shard])
    THEN Some(sc2[shard])
    ELSE None

\* lines 84-92 after load_shard returned shard_map
Answer(p, a, shard_map, o) ==
    Done(p, ReplyFor(shard_map, digits_only(a)), "none",
         [o EXCEPT !.sret = Some(shard_map)])

\* lines 49-53 of load_shard, with the manifest load_manifest returned
AfterManifest(p, a, t, manifest, o) ==
    LET shard == ShardOf(digits_only(a)) IN
    IF ~HasShards(manifest)
    THEN /\ Raise(p, "KeyError", [o EXCEPT !.ls = "raised"])
         /\ shard_cache' = shard_cache
         /\ info' = [info EXCEPT ![p] = "-"]
    ELSE IF ~Named(manifest, shard)
    THEN LET r == AbsentShard(shard_cache, shard, t) IN
         /\ shard_cache' = r.cache
         /\ info' = [info EXCEPT ![p] = "-"]
         /\ Answer(p, a, r.ret,
                   [o EXCEPT !.ls = "absent", !.sput = Written(shard_cache, r.cache, shard)])
    ELSE /\ pc' = [pc EXCEPT ![p] = "ls_download"]
         /\ info' = [info EXCEPT ![p] = manifest.shards[shard].file_id]
         /\ obs' = [obs EXCEPT ![p] = [o EXCEPT !.ls = "wait", !.sfetch = 1]]
         /\ shard_cache' = shard_cache
         /\ UNCHANGED <<reply, exc>>

----------------------------------------------------------------------------
(* The handler search_cmd, one action per stretch between two awaits       *)

Unauthorized == [text |-> "You are not authorized to use this bot.", rec |-> EmptyDict]

\* the age of the cached entries a call made at t finds, -1 when there is none
ManifestAge(mc, t) == IF mc.data = None THEN -1 ELSE t - mc.ts
ShardAge(sc, shard, t) == IF shard \in DOMAIN sc THEN t - sc[shard].ts ELSE -1

\* no handler call is in flight in slot p
Free(p) == pc[p] \in {"idle", "done"}

\* a bug Authorized could have: the restriction is not applied
Authorized_Always(ids, u) == TRUE

\* line 64, negated: the sender may use the bot
Authorized(ids, u) == ids = {} \/ u \in ids

\* lines 63-79, 43-49 and 22-27: search_cmd is called for an update /search
\* from user u with arguments a; it runs to its first network request or to
\* its end
Handle(p, u, a) ==
    LET query == digits_only(a)
        shard == ShardOf(query)
        t == clock
        n0 == [NoObs EXCEPT !.with = {q \in Procs \ {p} : ~Free(q)}]
        o0 == [n0 EXCEPT !.sage = ShardAge(shard_cache, shard, t),
                         !.sold = IF shard \in DOMAIN shard_cache
                                  THEN Some(shard_cache[shard].data) ELSE None]
        o1 == [o0 EXCEPT !.mage = ManifestAge(manifest_cache, t),
                         !.mold = manifest_cache.data]
    IN
    /\ args' = [args EXCEPT ![p] = a]
    /\ now' = [now EXCEPT ![p] = t]
    /\ doc' = [doc EXCEPT ![p] = "-"]
    /\ sender' = [sender EXCEPT ![p] = u]
    /\ UNCHANGED <<clock, pinned, manifest_cache, allowed>>
    /\ UNCHANGED ingestVars
    /\ IF ~Authorized(allowed, u)
       THEN Done(p, Unauthorized, "none", n0) /\ UNCHANGED shard_cache
            /\ info' = [info EXCEPT ![p] = "-"]
       ELSE IF a = <<>>
       THEN Done(p, Usage, "none", n0) /\ UNCHANGED shard_cache
            /\ info' = [info EXCEPT ![p] = "-"]
       ELSE IF ~ValidQuery(query)
       THEN Done(p, Invalid, "none", n0) /\ UNCHANGED shard_cache
            /\ info' = [info EXCEPT ![p] = "-"]
       ELSE IF ShardFresh(shard_cache, shard, t)
       THEN /\ Answer(p, a, shard_cache[shard].data, [o0 EXCEPT !.ls = "hit"])
            /\ UNCHANGED shard_cache
            /\ info' = [info EXCEPT ![p] = "-"]
       ELSE IF ManifestFresh(manifest_cache, t)
       THEN AfterManifest(p, a, t, manifest_cache.data[1],
                [o1 EXCEPT !.lm = "hit", !.mret = manifest_cache.data])
       ELSE /\ pc' = [pc EXCEPT ![p] = "lm_get_chat"]
            /\ info' = [info EXCEPT ![p] = "-"]
            /\ obs' = [obs EXCEPT ![p] =
                         [o1 EXCEPT !.ls = "wait", !.lm = "wait", !.mfetch = 1]]
            /\ UNCHANGED <<shard_cache, reply, exc>>

\* a network request of load_manifest or load_shard fails, or what it
\* brought cannot be read
Fails(p, e, mc, sc) ==
    /\ Raise(p, e, [obs[p] EXCEPT !.ls = "raised",
                       !.lm = IF obs[p].lm = "wait" THEN "raised" ELSE @])
    /\ manifest_cache' = mc
    /\ shard_cache' = sc
    /\ UNCHANGED <<clock, pinned, args, now, doc, info, allowed, sender>>
    /\ UNCHANGED ingestVars

\* lines 27-30: bot.get_chat answers
GetChat(p) ==
    /\ pc[p] = "lm_get_chat"
    /\ \/ \E e \in NetErrors : Fails(p, e, manifest_cache, shard_cache)
       \/ pinned = None /\ Fails(p, "RuntimeError", manifest_cache, shard_cache)
       \/ /\ pinned # None
          /\ pc' = [pc EXCEPT ![p] = "lm_download"]
          /\ doc' = [doc EXCEPT ![p] = pinned[1]]
          /\ UNCHANGED <<clock, pinned, manifest_cache, shard_cache, args, now,
                         info, reply, exc, obs, allowed, sender>>
          /\ UNCHANGED ingestVars

\* lines 32-40 and 49-53: the manifest document is downloaded
DownloadManifest(p) ==
    LET r == ParseManifest(manifest_cache, doc[p], now[p]) IN
    /\ pc[p] = "lm_download"
    /\ \/ \E e \in NetErrors : Fails(p, e, manifest_cache, shard_cache)
       \/ r.exc # "none" /\ Fails(p, r.exc, r.cache, shard_cache)
       \/ /\ r.exc = "none"
          /\ manifest_cache' = r.cache
          /\ AfterManifest(p, args[p], now[p], r.ret,
                 [obs[p] EXCEPT !.lm = "fetched", !.mret = Some(r.ret),
                                !.mput = Some(r.cache)])
          /\ UNCHANGED <<clock, pinned, args, now, doc, allowed, sender>>
          /\ UNCHANGED ingestVars

\* lines 53-60 and 84-92: the shard file is downloaded
DownloadShard(p) ==
    LET r == ParseShard(shard_cache, Shard(p), info[p], now[p]) IN
    /\ pc[p] = "ls_download"
    /\ \/ \E e \in NetErrors : Fails(p, e, manifest_cache, shard_cache)
       \/ r.exc # "none" /\ Fails(p, r.exc, manifest_cache, r.cache)
       \/ /\ r.exc = "none"
          /\ shard_cache' = r.cache
          /\ Answer(p, args[p], r.ret,
                 [obs[p] EXCEPT !.ls = "fetched", !.sput = Written(shard_cache, r.cache, Shard(p))])
          /\ UNCHANGED <<clock, pinned, manifest_cache, args, now, doc, info,
                         allowed, sender>>
          /\ UNCHANGED ingestVars

(* The outside world                                                       *)

\* time passes
TickClock ==
    /\ clock < MaxTime
    /\ clock' = clock + Tick
    /\ UNCHANGED <<pinned, manifest_cache, shard_cache, pc, args, now, doc, info,
                   reply, exc, obs, allowed, sender>>
    /\ UNCHANGED ingestVars

\* the channel's pinned message is replaced or removed
Repin(d) ==
    /\ d # pinned
    /\ pinned' = d
    /\ UNCHANGED <<clock, manifest_cache, shard_cache, pc, args, now, doc, info,
                   reply, exc, obs, allowed, sender>>
    /\ UNCHANGED ingestVars

(* Dispatch.  Application.builder().build() leaves concurrent_updates off: *)
(* the application awaits the handler of one update before it takes the    *)
(* next, so one handler is in flight at a time.                            *)

Handler == CHOOSE p \in Procs : \A q \in Procs : p <= q

Start(u, a) ==
    /\ \A q \in Procs : Free(q)
    /\ Handle(Handler, u, a)

Next ==
    \/ \E u \in Users, a \in ArgsSet : Start(u, a)
    \/ \E p \in Procs : GetChat(p)
    \/ \E p \in Procs : DownloadManifest(p)
    \/ \E p \in Procs : DownloadShard(p)
    \/ TickClock
    \/ \E d \in Pinned : Repin(d)

Spec == Init /\ [][Next]_vars

(* Concurrent dispatch: what the claims about racing queries are about.    *)
(* The handlers of several updates are in flight together (as with        *)
(* concurrent_updates on), each slot handling one update; they interleave  *)
(* at their awaits.                                                        *)

\* the queries that reach load_shard
Served == {a \in ArgsSet : ValidQuery(digits_only(a))}

Launch(p, u, a) ==
    /\ pc[p] = "idle"
    /\ \A q \in Procs : q < p => pc[q] # "idle"
    /\ Handle(p, u, a)

NextConcurrent ==
    \/ \E p \in Procs, u \in Users, a \in Served : Launch(p, u, a)
    \/ \E p \in Procs : GetChat(p)
    \/ \E p \in Procs : DownloadManifest(p)
    \/ \E p \in Procs : DownloadShard(p)
    \/ TickClock
    \/ \E d \in Pinned : Repin(d)

SpecConcurrent == Init /\ [][NextConcurrent]_vars

(* A restricted deployment: ALLOWED_USER_IDS is the empty set of the source *)
(* or names the users that may search; updates come from any sender and    *)
(* are dispatched one at a time.                                           *)

InitRestricted ==
    /\ clock = 0
    /\ pinned \in Pinned
    /\ manifest_cache = [data |-> None, ts |-> 0]
    /\ shard_cache = EmptyDict
    /\ pc = [p \in Procs |-> "idle"]
    /\ args = [p \in Procs |-> <<>>]
    /\ now = [p \in Procs |-> 0]
    /\ doc = [p \in Procs |-> "-"]
    /\ info = [p \in Procs |-> "-"]
    /\ reply = [p \in Procs |-> NoReply]
    /\ exc = [p \in Procs |-> "none"]
    /\ obs = [p \in Procs |-> NoObs]
    /\ allowed \in AllowedSets
    /\ sender = [p \in Procs |-> "-"]
    /\ IngestInit

NextRestricted ==
    \/ \E u \in Senders, a \in ArgsSet : Start(u, a)
    \/ \E p \in Procs : GetChat(p)
    \/ \E p \in Procs : DownloadManifest(p)
    \/ \E p \in Procs : DownloadShard(p)
    \/ TickClock
    \/ \E d \in Pinned : Repin(d)

SpecRestricted == InitRestricted /\ [][NextRestricted]_vars

(* The channel-ingest variant.  webhook() awaits tg_app.process_update for  *)
(* the update of its own request, and the requests are served side by     *)
(* side: the document handlers of several updates are in flight together   *)
(* and interleave at their awaits.                                         *)

\* lines 136-140: process_document_message returned n and document_handler
\* sends its reply
Finish(h, n) ==
    /\ mpc' = [mpc EXCEPT ![h] = "done"]
    /\ ret' = [ret EXCEPT ![h] = n]
    /\ mreply' = [mreply EXCEPT ![h] = DocReply(n)]

\* lines 134-136 and 50-56: document_handler is called for a message with
\* document d; it runs to its first network request or to its end
Receive(h, d) ==
    /\ mpc[h] \in {"idle", "done"}
    /\ mdoc' = [mdoc EXCEPT ![h] = d]
    /\ IF ~EndsWithJsonGz(d.file_name)
       THEN Finish(h, -1)
       ELSE IF d.file_name \in processed_files
       THEN Finish(h, 0)
       ELSE /\ mpc' = [mpc EXCEPT ![h] = "get_file"]
            /\ UNCHANGED <<ret, mreply>>
    /\ UNCHANGED <<user_data_by_mobile, user_data_by_email, processed_files, times>>
    /\ UNCHANGED botVars

\* lines 56 and 63-65: bot.get_file answers, or raises
GetFile(h) ==
    /\ mpc[h] = "get_file"
    /\ \/ Finish(h, -1)
       \/ /\ mpc' = [mpc EXCEPT ![h] = "download"]
          /\ UNCHANGED <<ret, mreply>>
    /\ UNCHANGED <<user_data_by_mobile, user_data_by_email, processed_files,
                   mdoc, times>>
    /\ UNCHANGED botVars

\* lines 57-65 and 36-46: the download answers, or raises
DownloadDoc(h) ==
    LET name == mdoc[h].file_name
        r == ProcessBytes(mdoc[h].file_id, name, user_data_by_mobile,
                          user_data_by_email, processed_files)
    IN
    /\ mpc[h] = "download"
    /\ \/ /\ Finish(h, -1)
          /\ UNCHANGED <<user_data_by_mobile, user_data_by_email,
                         processed_files, times>>
       \/ /\ Finish(h, r.ret)
          /\ user_data_by_mobile' = r.mobile
          /\ user_data_by_email' = r.email
          /\ processed_files' = r.processed
          /\ times' = IF r.ret >= 0 THEN [times EXCEPT ![name] = @ + 1] ELSE times
    /\ UNCHANGED mdoc
    /\ UNCHANGED botVars

InitIngest == Init /\ pinned = None

NextIngest ==
    \/ \E h \in Procs, d \in Documents : Receive(h, d)
    \/ \E h \in Procs : GetFile(h)
    \/ \E h \in Procs : DownloadDoc(h)

SpecIngest == InitIngest /\ [][NextIngest]_vars

TypeOK ==
    /\ \A h \in Procs : mpc[h] \in {"idle", "get_file", "download", "done"}
    /\ \A h \in Procs : mdoc[h] \in Documents \cup {NoDoc}
    /\ \A h \in Procs : ret[h] \in -1..2
    /\ processed_files \subseteq FileNames
    /\ clock \in 0..(MaxTime + Tick)
    /\ pinned \in Pinned
    /\ \A p \in Procs : pc[p] \in {"idle", "lm_get_chat", "lm_download", "ls_download", "done"}
    /\ allowed \in AllowedSets
    /\ \A p \in Procs : sender[p] \in Senders \cup {"-"}

----------------------------------------------------------------------------
(* Properties                                                              *)

\* handler p has returned
Finished(p) == pc[p] = "done"

\* the step is a call of search_cmd in slot p
Called(p) ==
    /\ Free(p)
    /\ <<pc[p], args[p], now[p], obs[p], reply[p], exc[p]>>'
         # <<pc[p], args[p], now[p], obs[p], reply[p], exc[p]>>

\* load_shard / load_manifest of handler p returned a value
ShardReturned(p) == obs[p].ls \in {"hit", "absent", "fetched"}
ManifestReturned(p) == obs[p].lm \in {"hit", "fetched"}

\* the pinned manifest document names shard
PinnedNames(shard) ==
    /\ pinned # None
    /\ Files[pinned[1]].json
    /\ HasShards(Files[pinned[1]].value)
    /\ Named(Files[pinned[1]].value, shard)

(* C1 *)

\* C1, as stated: get_shard of a shard that the manifest does not name
\* returns an empty mapping and stores no entry, and once the manifest
\* document names the shard, the very next get_shard call for it is not
\* answered with an empty mapping.
C1_NextCallSeesUpdate ==
    [][\A p \in Procs :
         (/\ Finished(p) /\ obs[p].ls = "absent"
          /\ PinnedNames(Shard(p))
          /\ Called(p)
          /\ ValidQuery(digits_only(args'[p]))
          /\ ShardOf(digits_only(args'[p])) = Shard(p))
         => obs'[p].ls # "absent"]_vars

\* C1, amended: get_shard returns an empty mapping for a shard that the
\* manifest it consulted does not name, and in that case writes no entry to
\* the shard cache; a call whose load_manifest fetched a manifest naming the
\* shard is never answered with an empty mapping from the cache: it fetches
\* the shard file, and returns that file's content if it returns.  (A call
\* made while the cached manifest is fresh is answered from that manifest.)
C1_NoNegativeEntry ==
    \A p \in Procs :
        /\ obs[p].ls = "absent" =>
              /\ obs[p].sret = Some(EmptyDict)
              /\ obs[p].sput = None
              /\ obs[p].sfetch = 0
              /\ ManifestReturned(p)
              /\ ~Named(obs[p].mret[1], Shard(p))
        /\ (/\ obs[p].lm = "fetched"
            /\ HasShards(obs[p].mret[1])
            /\ Named(obs[p].mret[1], Shard(p))) =>
              /\ obs[p].ls \in {"wait", "fetched", "raised"}
              /\ obs[p].sfetch = 1
              /\ obs[p].ls = "fetched" =>
                    obs[p].sret = Some(Files[obs[p].mret[1].shards[Shard(p)].file_id].value)
        \* no shard file of the model is an empty mapping: a cached one
        \* could only be a negative entry
        /\ \A s \in DOMAIN shard_cache : shard_cache[s].data # EmptyDict

\* a call was answered "absent" without a cache entry being made, and the
\* pinned manifest now names the shard
C1_Witness ==
    \E p \in Procs :
        /\ Finished(p) /\ obs[p].ls = "absent" /\ reply[p] = NotFound
        /\ Shard(p) \notin DOMAIN shard_cache
        /\ PinnedNames(Shard(p))

(* C2 *)

\* C2: every search query with at least 7 digits ends with a reply to the
\* caller (a record, "not found" or an error message), whatever failed.
C2_EveryFailureSurfaced ==
    \A p \in Procs :
        (Finished(p) /\ ValidQuery(Query(p))) => reply[p] # NoReply

(* C3 *)

\* C3: of two successive calls within the TTL window, at most one fetches:
\* when the previous call's load_manifest fetched the manifest and this call
\* consults the manifest less than MANIFEST_CACHE_TTL later, it fetches
\* nothing and returns the same manifest; when the previous call's load_shard
\* fetched the same shard less than SHARD_CACHE_TTL ago, this call is a hit
\* that fetches nothing and does not call load_manifest.
C3_AtMostOneFetch ==
    [][\A p \in Procs :
         (Finished(p) /\ Called(p) /\ ValidQuery(digits_only(args'[p]))) =>
            /\ (/\ obs[p].lm = "fetched"
                /\ clock - now[p] < MANIFEST_CACHE_TTL
                /\ obs'[p].lm # "none")
               => (obs'[p].lm = "hit" /\ obs'[p].mfetch = 0 /\ obs'[p].mret = obs[p].mret)
            /\ (/\ obs[p].ls = "fetched"
                /\ clock - now[p] < SHARD_CACHE_TTL
                /\ ShardOf(digits_only(args'[p])) = Shard(p))
               => (/\ obs'[p].ls = "hit" /\ obs'[p].sfetch = 0
                   /\ obs'[p].sret = obs[p].sret /\ obs'[p].lm = "none")]_vars

(* C4 *)

\* the call of handler p found a manifest / an entry of its shard whose age
\* had reached the TTL
StaleManifest(p) == obs[p].mage >= MANIFEST_CACHE_TTL
StaleShard(p) == obs[p].sage >= SHARD_CACHE_TTL

\* C4, as stated: a call that finds its entry at or past the TTL and returns
\* has fetched the entry's resource exactly once, has installed what it
\* fetched in place of the old entry, and returns the fetched content.
C4_StaleEntryRefetched ==
    \A p \in Procs :
        /\ (StaleManifest(p) /\ ManifestReturned(p)) =>
              /\ obs[p].mfetch = 1
              /\ obs[p].mput = Some([data |-> obs[p].mret, ts |-> now[p]])
              /\ obs[p].mret = Some(Files[doc[p]].value)
        /\ (StaleShard(p) /\ ShardReturned(p)) =>
              /\ obs[p].sfetch = 1
              /\ obs[p].sput = Some([data |-> obs[p].sret[1], ts |-> now[p]])
              /\ obs[p].sret = Some(Files[info[p]].value)

\* C4, amended: a call that finds its entry at or past the TTL never answers
\* from it.  load_manifest fetches the document once and, if it returns,
\* has installed what it fetched with the call's timestamp and returns it.
\* load_shard, if the manifest still names the shard, fetches the shard file
\* once and, if it returns, has installed and returns what it fetched; if the
\* manifest no longer names the shard it fetches no shard file, returns an
\* empty mapping and leaves the stale entry in the cache.
C4_StaleEntryRefetchedIfNamed ==
    \A p \in Procs :
        /\ (StaleManifest(p) /\ obs[p].lm # "none") =>
              /\ obs[p].mfetch = 1
              /\ obs[p].lm # "hit"
              /\ obs[p].lm = "fetched" =>
                    /\ obs[p].mput = Some([data |-> obs[p].mret, ts |-> now[p]])
                    /\ obs[p].mret = Some(Files[doc[p]].value)
        /\ StaleShard(p) =>
              /\ obs[p].ls # "hit"
              /\ obs[p].ls = "fetched" =>
                    /\ obs[p].sfetch = 1
                    /\ obs[p].sput = Some([data |-> obs[p].sret[1], ts |-> now[p]])
                    /\ obs[p].sret = Some(Files[info[p]].value)
              /\ obs[p].ls = "absent" =>
                    /\ obs[p].sfetch = 0
                    /\ obs[p].sput = None
                    /\ obs[p].sret = Some(EmptyDict)
                    /\ Finished(p) => /\ Shard(p) \in DOMAIN shard_cache
                                      /\ shard_cache[Shard(p)].data = obs[p].sold[1]

\* a stale shard entry and a stale manifest were both refetched, and both
\* fetched contents differ from the ones that were cached
C4_Witness ==
    \E p \in Procs :
        /\ Finished(p)
        /\ StaleShard(p) /\ obs[p].ls = "fetched" /\ obs[p].sret # obs[p].sold
        /\ StaleManifest(p) /\ obs[p].lm = "fetched" /\ obs[p].mret # obs[p].mold
        /\ shard_cache[Shard(p)] = [data |-> obs[p].sret[1], ts |-> now[p]]

(* C5 *)

\* C5: a stale entry is never used.  A mapping that load_manifest or
\* load_shard returns from the cache is younger than the TTL at the call; any
\* other mapping returned was fetched (or is the empty mapping of a shard the
\* manifest does not name) in that call; and when the entry is stale and the
\* refetch fails the call raises: it returns nothing, and no record is sent.
C5_StaleNeverUsed ==
    \A p \in Procs :
        /\ obs[p].lm = "hit" =>
              /\ obs[p].mage >= 0 /\ obs[p].mage < MANIFEST_CACHE_TTL
              /\ obs[p].mret = obs[p].mold /\ obs[p].mfetch = 0
        /\ obs[p].ls = "hit" =>
              /\ obs[p].sage >= 0 /\ obs[p].sage < SHARD_CACHE_TTL
              /\ obs[p].sret = obs[p].sold /\ obs[p].sfetch = 0
        /\ obs[p].mret # None => obs[p].lm \in {"hit", "fetched"}
        /\ obs[p].sret # None => obs[p].ls \in {"hit", "fetched", "absent"}
        /\ obs[p].lm = "fetched" => obs[p].mret = Some(Files[doc[p]].value)
        /\ obs[p].ls = "fetched" => obs[p].sret = Some(Files[info[p]].value)
        /\ obs[p].lm = "raised" => obs[p].mret = None
        /\ (Finished(p) /\ obs[p].ls = "raised") =>
              /\ obs[p].sret = None
              /\ reply[p] \in {NoReply, Unavailable}

\* a fresh entry was used at the last moment before the TTL
C5_Witness ==
    \E p \in Procs :
        /\ Finished(p) /\ obs[p].ls = "hit"
        /\ obs[p].sage = SHARD_CACHE_TTL - Tick

\* the refetch of a stale shard entry failed and the call raised
C5_WitnessFailedRefetch ==
    \E p \in Procs :
        /\ Finished(p) /\ StaleShard(p) /\ obs[p].ls = "raised"
        /\ obs[p].sfetch = 1

(* C6 *)

\* the manifest has the expected shape: a "shards" mapping
HasShape(manifest) == HasShards(manifest)

\* C6: load_manifest fails when the document is not JSON or lacks the
\* "shards" mapping, and then leaves the cached manifest as it was: so every
\* manifest it returns, and every manifest in the cache, has the shape.
C6_MalformedManifestRejected ==
    /\ \A p \in Procs : obs[p].lm = "fetched" => HasShape(obs[p].mret[1])
    /\ manifest_cache.data # None => HasShape(manifest_cache.data[1])

(* C7 *)

\* C7: a failed refresh changes nothing: the step in which load_shard raises
\* leaves the shard cache as it was, and the step in which load_manifest
\* raises leaves the manifest cache (data and timestamp) as it was.
C7_FailedRefreshLeavesCache ==
    [][\A p \in Procs :
         /\ (obs[p].ls = "wait" /\ obs'[p].ls = "raised") =>
               shard_cache' = shard_cache
         /\ (obs[p].lm = "wait" /\ obs'[p].lm = "raised") =>
               manifest_cache' = manifest_cache]_vars

\* the refresh of a cached shard failed on the file's content, and the prior
\* entry is in the cache
C7_Witness ==
    \E p \in Procs :
        /\ Finished(p) /\ obs[p].ls = "raised"
        /\ exc[p] \in {"BadGzipFile", "JSONDecodeError"}
        /\ info[p] # "-"
        /\ obs[p].sold # None
        /\ Shard(p) \in DOMAIN shard_cache
        /\ shard_cache[Shard(p)].data = obs[p].sold[1]

(* C8 *)

\* C8: a record stored under the normalized query in the shard that
\* load_shard returned is what the handler replies, whatever the record,
\* an empty field map included.
C8_RoundTrip ==
    \A p \in Procs :
        (/\ Finished(p) /\ ShardReturned(p)
         /\ Query(p) \in DOMAIN obs[p].sret[1])
        => reply[p] = Record(obs[p].sret[1][Query(p)])

(* C9 *)

\* C9: a query with fewer than 7 digits is answered with a usage message in
\* the step that receives it: no request is issued, neither function is
\* called and both caches stay as they are.
C9_ShortQueryRejected ==
    [][\A p \in Procs :
         (Called(p) /\ Len(digits_only(args'[p])) < MinDigits) =>
            /\ pc'[p] = "done"
            /\ reply'[p] \in {Usage, Invalid}
            /\ exc'[p] = "none"
            /\ obs'[p].lm = "none" /\ obs'[p].ls = "none"
            /\ obs'[p].mfetch = 0 /\ obs'[p].sfetch = 0
            /\ manifest_cache' = manifest_cache
            /\ shard_cache' = shard_cache]_vars

\* a query of six digits among other characters was rejected while the caches
\* were populated
C9_Witness ==
    \E p \in Procs :
        /\ Finished(p)
        /\ Len(args[p]) >= MinDigits
        /\ Len(Query(p)) = MinDigits - 1
        /\ reply[p] = Invalid
        /\ manifest_cache.data # None
        /\ shard_cache # EmptyDict

(* C10 *)

\* handlers p and q were in flight together
Racing(p, q) == p # q /\ (q \in obs[p].with \/ p \in obs[q].with)

\* handler p missed the shard cache and its load_shard returned
Missed(p) == Finished(p) /\ obs[p].ls \in {"absent", "fetched"}

ManifestPair(p) == [data |-> Some(Files[doc[p]].value), ts |-> now[p]]
ShardPair(p) == [data |-> Files[info[p]].value, ts |-> now[p]]

\* C11: installs are atomic.  In every state under concurrent dispatch the
\* manifest cache is the pair it was created with or the complete pair (the
\* document's whole content, the call's timestamp) of one call that fetched
\* it, and every shard cache entry is the complete pair (the file's whole
\* content, the call's timestamp) of one call that fetched that shard:
\* never the data of one install with the timestamp of another entry.
C11_AtomicInstall ==
    /\ \/ manifest_cache = [data |-> None, ts |-> 0]
       \/ \E p \in Procs :
             obs[p].lm = "fetched" /\ manifest_cache = ManifestPair(p)
    /\ \A s \in DOMAIN shard_cache :
          \E p \in Procs :
             /\ obs[p].ls = "fetched" /\ Shard(p) = s
             /\ shard_cache[s] = ShardPair(p)

\* two racing calls installed different manifests and different contents of
\* one shard with different timestamps, one over the other, and the caches
\* hold the pairs of the call that installed last
C11_Witness ==
    \E p, q \in Procs :
        /\ Racing(p, q) /\ Finished(p) /\ Finished(q)
        /\ obs[p].lm = "fetched" /\ obs[q].lm = "fetched"
        /\ obs[p].ls = "fetched" /\ obs[q].ls = "fetched"
        /\ Shard(p) = Shard(q)
        /\ ManifestPair(p).data # ManifestPair(q).data
        /\ ShardPair(p).data # ShardPair(q).data
        /\ now[p] # now[q]
        /\ manifest_cache = ManifestPair(p)
        /\ shard_cache[Shard(p)] = ShardPair(p)

(* C12 *)

\* C12: the lookup is exact-match only.  When load_shard returned, the
\* mapping is the one of the shard of the query's first 4 digits (the file
\* the consulted manifest names for it, or the empty mapping when the
\* manifest names none, which raises nothing); the reply is the record
\* stored under the whole normalized query when that key is in the mapping,
\* and "Not found." when it is not.
C12_ExactMatchOnly ==
    \A p \in Procs :
        (Finished(p) /\ ShardReturned(p)) =>
            /\ exc[p] = "none"
            /\ obs[p].ls = "absent" =>
                  /\ ~Named(obs[p].mret[1], Shard(p))
                  /\ obs[p].sret = Some(EmptyDict)
                  /\ reply[p] = NotFound
            /\ obs[p].ls = "fetched" =>
                  /\ info[p] = obs[p].mret[1].shards[Shard(p)].file_id
                  /\ obs[p].sret = Some(Files[info[p]].value)
            /\ IF Query(p) \in DOMAIN obs[p].sret[1]
               THEN reply[p] = Record(obs[p].sret[1][Query(p)])
               ELSE reply[p] = NotFound

(* C13 *)

\* the first n digits of the raw string s, in their order, whatever stands
\* between them
RECURSIVE FirstDigits(_, _)
FirstDigits(s, n) ==
    IF n = 0 \/ s = <<>> THEN <<>>
    ELSE IF Head(s) \in Digit THEN <<Head(s)>> \o FirstDigits(Tail(s), n - 1)
    ELSE FirstDigits(Tail(s), n)

\* C13: whenever search_cmd calls load_shard, the raw query holds at least
\* 7 digits and the shard-id passed is exactly its first 4 digits, whatever
\* else the raw query holds and wherever: that shard-id is the one looked up
\* in the manifest and the key of the cache entry the call writes.
C13_ShardIsFirstFourDigits ==
    \A p \in Procs :
        obs[p].ls # "none" =>
            LET d == FirstDigits(args[p], SHARD_PREFIX) IN
            /\ Len(FirstDigits(args[p], Len(args[p]))) >= MinDigits
            /\ Len(d) = SHARD_PREFIX
            /\ Shard(p) = d
            /\ info[p] # "-" => info[p] = obs[p].mret[1].shards[d].file_id
            /\ obs[p].sput # None =>
                  /\ d \in DOMAIN shard_cache
                  /\ shard_cache[d] = obs[p].sput[1]

\* a query with non-digits before, inside and after its first four digits
\* was resolved through the shard of those digits, fetched and answered
C13_Witness ==
    \E p \in Procs :
        /\ Finished(p) /\ obs[p].ls = "fetched"
        /\ args[p][1] \notin Digit
        /\ \E i \in 2..SHARD_PREFIX : args[p][i] \notin Digit
        /\ Shard(p) = S1
        /\ S1 \in DOMAIN shard_cache
        /\ reply[p] \in {Record(Alice), Record(Bob)}

(* C14 *)

\* the step is one of handler p: its call, or the answer to a request of it
StepOf(p) ==
    <<pc[p], args[p], now[p], obs[p], reply[p], exc[p], doc[p], info[p], sender[p]>>'
      # <<pc[p], args[p], now[p], obs[p], reply[p], exc[p], doc[p], info[p], sender[p]>>

\* the shard cache has the same entry, or no entry, for shard b before and
\* after the step
SameEntry(b) ==
    /\ b \in DOMAIN shard_cache' <=> b \in DOMAIN shard_cache
    /\ b \in DOMAIN shard_cache => shard_cache'[b] = shard_cache[b]

\* C14: shard-ids are independent.  No step of a search for shard a, whether
\* its load_shard call returns or raises, adds, replaces or removes the cache
\* entry of another shard b; and a step of no handler changes no entry.
C14_OtherShardsUntouched ==
    [][\A b \in DOMAIN shard_cache \cup DOMAIN shard_cache' :
          SameEntry(b) \/
          \E p \in Procs :
             StepOf(p) /\ ShardOf(digits_only(args'[p])) = b]_vars

\* racing searches for two shards both installed their entry, at different
\* times, and both entries are in the cache
C14_Witness ==
    \E p, q \in Procs :
        /\ Racing(p, q) /\ Finished(p) /\ Finished(q)
        /\ Shard(p) = S1 /\ Shard(q) = S2
        /\ obs[p].ls = "fetched" /\ obs[q].ls = "fetched"
        /\ now[p] # now[q]
        /\ DOMAIN shard_cache = {S1, S2}
        /\ shard_cache[S1] = ShardPair(p)
        /\ shard_cache[S2] = ShardPair(q)

(* C15 *)

\* C15: per-shard isolation.  While a handler waits for the download of
\* the file of one shard, the search for a query of another shard can be
\* taken up (and so run to its answer): the pending fetch holds back only
\* the query that issued it.
C15_PerShardIsolation ==
    \A p \in Procs :
        pc[p] = "ls_download" =>
            \E u \in Users, a \in Served :
                /\ ShardOf(digits_only(a)) # Shard(p)
                /\ ENABLED Start(u, a)

(* C16 *)

C17_UnauthorizedGetsNothing ==
    [][\A p \in Procs :
         /\ (Free(p) /\ StepOf(p) /\ allowed # {} /\ sender'[p] \notin allowed) =>
               /\ pc'[p] = "done"
               /\ reply'[p] = Unauthorized
               /\ reply'[p].rec = EmptyDict
               /\ exc'[p] = "none"
               /\ obs'[p].lm = "none" /\ obs'[p].ls = "none"
               /\ obs'[p].mfetch = 0 /\ obs'[p].sfetch = 0
               /\ manifest_cache' = manifest_cache
               /\ shard_cache' = shard_cache
         /\ (StepOf(p) /\ pc'[p] = "done"
             /\ (allowed = {} \/ sender'[p] \in allowed)) =>
               reply'[p] # Unauthorized]_vars

\* a sender outside a non-empty ALLOWED_USER_IDS asked for a number whose
\* record is in the cache, fresh, and was told "not authorized"
C17_Witness ==
    \E p \in Procs :
        /\ Finished(p)
        /\ allowed # {} /\ sender[p] \notin allowed
        /\ Query(p) = K1
        /\ ShardFresh(shard_cache, S1, clock)
        /\ K1 \in DOMAIN shard_cache[S1].data
        /\ reply[p] = Unauthorized

\* with ALLOWED_USER_IDS empty, a sender that a restriction would have kept
\* out was sent a record
C17_WitnessOpen ==
    \E p \in Procs :
        /\ Finished(p)
        /\ allowed = {} /\ sender[p] = "u2"
        /\ reply[p] = Record(Alice)

(* C18 *)

\* the step is one of document handler h
IngestStepOf(h) ==
    <<mpc[h], mdoc[h], ret[h], mreply[h]>>' # <<mpc[h], mdoc[h], ret[h], mreply[h]>>

\* C18: a file is indexed at most once per file name.  For every
\* interleaving of document messages, index_records completes at most once
\* for each file name; and a message whose document's name is in
\* processed_files is skipped in the step that receives it: 0 is returned,
\* nothing is downloaded and the indexes and processed_files stay as they
\* are.
C18_IndexedAtMostOnce ==
    [][/\ \A n \in FileNames : times'[n] <= 1
       /\ \A h \in Procs :
             (/\ mpc[h] \in {"idle", "done"} /\ IngestStepOf(h)
              /\ mdoc'[h].file_name \in processed_files) =>
                /\ mpc'[h] = "done" /\ ret'[h] = 0
                /\ user_data_by_mobile' = user_data_by_mobile
                /\ user_data_by_email' = user_data_by_email
                /\ processed_files' = processed_files]_vars

(* C19 *)

\* C19: indexing a file is all-or-nothing.  A step of a document handler
\* changes the indexes or processed_files only when it ends the handler
\* with the number of the file's records returned and the file name in
\* processed_files; the step that makes process_document_message return -1
\* leaves user_data_by_mobile, user_data_by_email and processed_files as
\* they were.
C19_AllOrNothing ==
    [][\A h \in Procs :
         IngestStepOf(h) =>
            \/ /\ user_data_by_mobile' = user_data_by_mobile
               /\ user_data_by_email' = user_data_by_email
               /\ processed_files' = processed_files
            \/ /\ mpc'[h] = "done"
               /\ ret'[h] = Len(DocFiles[mdoc[h].file_id].records)
               /\ mdoc[h].file_name \in processed_files']_vars

====
